---- MODULE Spec2Model ----
(***************************************************************************)
(* Model of state_policies.py: the catalog STATES of StateTobaccoPolicy    *)
(* records, the JSON exporter export_to_json and the console report        *)
(* generate_summary_stats, as called by the __main__ block or by a caller  *)
(* that imported the module.                                               *)
(***************************************************************************)
EXTENDS Integers, Sequences, FiniteSets, TLC

\* ------------------------------------------------------------------------
\* Bounds of the model (not program constants)
\* ------------------------------------------------------------------------

\* number of calls an importing caller makes
MaxCalls == 3

\* number of chunks the file object hands to the operating system at once;
\* a failing write leaves a whole number of such blocks in the file
BlockSize == 2500

\* ------------------------------------------------------------------------
\* class StateTobaccoPolicy
\* ------------------------------------------------------------------------

\* Optional[str]: None, or a string
None == <<>>

Some(s) == <<s>>

\* the dataclass fields, in declaration order
Fields ==
  << "state", "state_abbr",
     "flavored_ecig_ban", "flavored_ecig_details", "flavored_ecig_effective_date",
     "menthol_cig_ban", "menthol_ban_details", "menthol_effective_date",
     "has_ecig_tax", "ecig_tax_rate", "ecig_tax_structure",
     "indoor_vaping_ban", "indoor_ban_details",
     "minimum_age", "state_t21_law",
     "licensing_required", "license_fee",
     "local_restrictions", "recent_changes", "sources" >>

FieldNames == {Fields[i] : i \in DOMAIN Fields}

\* the annotation of each field; the values of the catalog have these types
FieldType ==
  [ state |-> "str", state_abbr |-> "str",
    flavored_ecig_ban |-> "str", flavored_ecig_details |-> "str",
    flavored_ecig_effective_date |-> "Optional[str]",
    menthol_cig_ban |-> "bool", menthol_ban_details |-> "str",
    menthol_effective_date |-> "Optional[str]",
    has_ecig_tax |-> "bool", ecig_tax_rate |-> "str", ecig_tax_structure |-> "str",
    indoor_vaping_ban |-> "bool", indoor_ban_details |-> "str",
    minimum_age |-> "int", state_t21_law |-> "bool",
    licensing_required |-> "bool", license_fee |-> "str",
    local_restrictions |-> "List[str]", recent_changes |-> "str",
    sources |-> "List[str]" ]

\* FieldDefaults with "" in place of None for the optional dates
FieldDefaults_emptyDates ==
  [ flavored_ecig_effective_date |-> Some(""),
    menthol_cig_ban |-> FALSE, menthol_ban_details |-> "",
    menthol_effective_date |-> Some(""),
    has_ecig_tax |-> FALSE, ecig_tax_rate |-> "", ecig_tax_structure |-> "",
    indoor_vaping_ban |-> FALSE, indoor_ban_details |-> "",
    minimum_age |-> 21, state_t21_law |-> FALSE,
    licensing_required |-> FALSE, license_fee |-> "",
    local_restrictions |-> <<>>, recent_changes |-> "",
    sources |-> <<>> ]

\* the defaults of the fields that have one (state, state_abbr,
\* flavored_ecig_ban and flavored_ecig_details have none)
FieldDefaults ==
  [ flavored_ecig_effective_date |-> None,
    menthol_cig_ban |-> FALSE, menthol_ban_details |-> "",
    menthol_effective_date |-> None,
    has_ecig_tax |-> FALSE, ecig_tax_rate |-> "", ecig_tax_structure |-> "",
    indoor_vaping_ban |-> FALSE, indoor_ban_details |-> "",
    minimum_age |-> 21, state_t21_law |-> FALSE,
    licensing_required |-> FALSE, license_fee |-> "",
    local_restrictions |-> <<>>, recent_changes |-> "",
    sources |-> <<>> ]

\* __init__ with "none" as the default of ecig_tax_structure
StateTobaccoPolicy_noneStructure(kwargs) ==
  kwargs @@ [ecig_tax_structure |-> "none"] @@ FieldDefaults

\* __init__ that does not take the sources argument
StateTobaccoPolicy_noSources(kwargs) ==
  [sources |-> <<>>] @@ kwargs @@ FieldDefaults

\* __init__ that sets has_ecig_tax from the presence of a rate description
StateTobaccoPolicy_taxFromRate(kwargs) ==
  [has_ecig_tax |-> (kwargs @@ FieldDefaults).ecig_tax_rate # ""]
     @@ kwargs @@ FieldDefaults

\* the generated __init__: keyword arguments override the defaults
StateTobaccoPolicy(kwargs) == kwargs @@ FieldDefaults

\* ------------------------------------------------------------------------
\* The catalog: the keyword arguments of the 51 constructor calls
\* ------------------------------------------------------------------------

STATES_literal ==
  <<
  \* AL, lines 67-76
  [
     state |-> "Alabama",
     state_abbr |-> "AL",
     flavored_ecig_ban |-> "none",
     flavored_ecig_details |-> "No statewide restrictions on flavored e-cigarettes",
     has_ecig_tax |-> FALSE,
     indoor_vaping_ban |-> FALSE,
     state_t21_law |-> FALSE,
     sources |-> <<"Tax Foundation 2025", "Truth Initiative 2025">>
  ],
  \* AK, lines 78-88
  [
     state |-> "Alaska",
     state_abbr |-> "AK",
     flavored_ecig_ban |-> "none",
     flavored_ecig_details |-> "No statewide restrictions on flavored e-cigarettes",
     has_ecig_tax |-> FALSE,
     ecig_tax_rate |-> "No statewide tax, but several municipalities impose taxes: Juneau (45%), Anchorage (55%), Matanuska-Susitna (55%)",
     indoor_vaping_ban |-> FALSE,
     state_t21_law |-> TRUE,
     sources |-> <<"Tax Foundation 2025", "ComplyIQ 2025">>
  ],
  \* AZ, lines 90-99
  [
     state |-> "Arizona",
     state_abbr |-> "AZ",
     flavored_ecig_ban |-> "none",
     flavored_ecig_details |-> "No statewide restrictions on flavored e-cigarettes",
     has_ecig_tax |-> FALSE,
     indoor_vaping_ban |-> FALSE,
     state_t21_law |-> TRUE,
     sources |-> <<"Tax Foundation 2025", "Truth Initiative 2025">>
  ],
  \* AR, lines 101-110
  [
     state |-> "Arkansas",
     state_abbr |-> "AR",
     flavored_ecig_ban |-> "none",
     flavored_ecig_details |-> "No statewide restrictions on flavored e-cigarettes",
     has_ecig_tax |-> FALSE,
     indoor_vaping_ban |-> FALSE,
     state_t21_law |-> TRUE,
     sources |-> <<"Tax Foundation 2025">>
  ],
  \* CA, lines 112-130
  [
     state |-> "California",
     state_abbr |-> "CA",
     flavored_ecig_ban |-> "comprehensive",
     flavored_ecig_details |-> "Comprehensive ban on all flavored tobacco products including menthol. Voters upheld the ban in November 2022.",
     flavored_ecig_effective_date |-> Some("2022-12-21"),
     menthol_cig_ban |-> TRUE,
     menthol_ban_details |-> "Statewide ban on menthol cigarettes, approved by voters in 2022",
     menthol_effective_date |-> Some("2022-12-21"),
     has_ecig_tax |-> TRUE,
     ecig_tax_rate |-> "12.5% wholesale, rising to 56.67% by July 1, 2026",
     ecig_tax_structure |-> "wholesale %",
     indoor_vaping_ban |-> TRUE,
     indoor_ban_details |-> "Comprehensive smoke-free law covering e-cigarettes in workplaces, restaurants, and bars",
     state_t21_law |-> TRUE,
     recent_changes |-> "As of Jan 1, 2025, flavor prohibition extended to internet sales. AB 3218 prohibits menthol-like cooling sensations (WS-3, WS-23). SB 1230 allows seizure of illegal flavored products.",
     local_restrictions |-> <<"Numerous cities and counties with additional restrictions">>,
     sources |-> <<"Campaign for Tobacco-Free Kids 2024", "VapeRanger 2025", "Truth Initiative 2025">>
  ],
  \* CO, lines 132-144
  [
     state |-> "Colorado",
     state_abbr |-> "CO",
     flavored_ecig_ban |-> "partial",
     flavored_ecig_details |-> "State law bans flavored vape products except tobacco and menthol flavors",
     has_ecig_tax |-> TRUE,
     ecig_tax_rate |-> "30% wholesale (open), 50% wholesale (closed)",
     ecig_tax_structure |-> "wholesale %",
     indoor_vaping_ban |-> TRUE,
     indoor_ban_details |-> "Comprehensive smoke-free law covering e-cigarettes",
     state_t21_law |-> TRUE,
     sources |-> <<"Tax Foundation 2025", "VapeRanger 2025">>
  ],
  \* CT, lines 146-158
  [
     state |-> "Connecticut",
     state_abbr |-> "CT",
     flavored_ecig_ban |-> "none",
     flavored_ecig_details |-> "No statewide flavor ban",
     has_ecig_tax |-> TRUE,
     ecig_tax_rate |-> "$0.40 per mL",
     ecig_tax_structure |-> "per mL",
     indoor_vaping_ban |-> TRUE,
     indoor_ban_details |-> "Comprehensive smoke-free law covering e-cigarettes",
     state_t21_law |-> TRUE,
     sources |-> <<"Tax Foundation 2025", "Truth Initiative 2025">>
  ],
  \* DE, lines 160-174
  [
     state |-> "Delaware",
     state_abbr |-> "DE",
     flavored_ecig_ban |-> "partial",
     flavored_ecig_details |-> "Illegal to sell flavored single-use disposable vapes",
     has_ecig_tax |-> TRUE,
     ecig_tax_rate |-> "$1.25 per mL",
     ecig_tax_structure |-> "per mL",
     indoor_vaping_ban |-> TRUE,
     indoor_ban_details |-> "Comprehensive smoke-free law covering e-cigarettes",
     licensing_required |-> TRUE,
     license_fee |-> "$800/year",
     state_t21_law |-> TRUE,
     sources |-> <<"Tax Foundation 2025", "Ecigator 2025", "Truth Initiative 2025">>
  ],
  \* FL, lines 176-185
  [
     state |-> "Florida",
     state_abbr |-> "FL",
     flavored_ecig_ban |-> "none",
     flavored_ecig_details |-> "No statewide restrictions on flavored e-cigarettes",
     has_ecig_tax |-> FALSE,
     indoor_vaping_ban |-> FALSE,
     state_t21_law |-> FALSE,
     sources |-> <<"Tax Foundation 2025">>
  ],
  \* GA, lines 187-198
  [
     state |-> "Georgia",
     state_abbr |-> "GA",
     flavored_ecig_ban |-> "none",
     flavored_ecig_details |-> "No statewide restrictions on flavored e-cigarettes",
     has_ecig_tax |-> TRUE,
     ecig_tax_rate |-> "7% wholesale",
     ecig_tax_structure |-> "wholesale %",
     indoor_vaping_ban |-> FALSE,
     state_t21_law |-> TRUE,
     sources |-> <<"Tax Foundation 2025">>
  ],
  \* HI, lines 200-212
  [
     state |-> "Hawaii",
     state_abbr |-> "HI",
     flavored_ecig_ban |-> "none",
     flavored_ecig_details |-> "No statewide flavor ban",
     has_ecig_tax |-> TRUE,
     ecig_tax_rate |-> "70% wholesale",
     ecig_tax_structure |-> "wholesale %",
     indoor_vaping_ban |-> TRUE,
     indoor_ban_details |-> "Comprehensive smoke-free law covering e-cigarettes",
     state_t21_law |-> TRUE,
     sources |-> <<"Tax Foundation 2025", "Truth Initiative 2025">>
  ],
  \* ID, lines 214-223
  [
     state |-> "Idaho",
     state_abbr |-> "ID",
     flavored_ecig_ban |-> "none",
     flavored_ecig_details |-> "No statewide restrictions on flavored e-cigarettes",
     has_ecig_tax |-> FALSE,
     indoor_vaping_ban |-> FALSE,
     state_t21_law |-> FALSE,
     sources |-> <<"Tax Foundation 2025">>
  ],
  \* IL, lines 225-240
  [
     state |-> "Illinois",
     state_abbr |-> "IL",
     flavored_ecig_ban |-> "none",
     flavored_ecig_details |-> "No statewide flavor ban, but many local restrictions",
     has_ecig_tax |-> TRUE,
     ecig_tax_rate |-> "$2.50 per mL",
     ecig_tax_structure |-> "per mL",
     indoor_vaping_ban |-> TRUE,
     indoor_ban_details |-> "Comprehensive smoke-free law covering e-cigarettes",
     licensing_required |-> TRUE,
     license_fee |-> "$1,200/year",
     state_t21_law |-> TRUE,
     local_restrictions |-> <<"Chicago has comprehensive local flavor restrictions">>,
     sources |-> <<"Tax Foundation 2025", "Ecigator 2025", "Truth Initiative 2025">>
  ],
  \* IN, lines 242-253
  [
     state |-> "Indiana",
     state_abbr |-> "IN",
     flavored_ecig_ban |-> "none",
     flavored_ecig_details |-> "No statewide restrictions on flavored e-cigarettes",
     has_ecig_tax |-> TRUE,
     ecig_tax_rate |-> "15% wholesale",
     ecig_tax_structure |-> "wholesale %",
     indoor_vaping_ban |-> FALSE,
     state_t21_law |-> TRUE,
     sources |-> <<"Tax Foundation 2025">>
  ],
  \* IA, lines 255-265
  [
     state |-> "Iowa",
     state_abbr |-> "IA",
     flavored_ecig_ban |-> "none",
     flavored_ecig_details |-> "No statewide restrictions on flavored e-cigarettes",
     has_ecig_tax |-> FALSE,
     ecig_tax_rate |-> "Subject to sales tax only",
     indoor_vaping_ban |-> FALSE,
     state_t21_law |-> FALSE,
     sources |-> <<"Tax Foundation 2025", "ComplyIQ 2025">>
  ],
  \* KS, lines 267-279
  [
     state |-> "Kansas",
     state_abbr |-> "KS",
     flavored_ecig_ban |-> "none",
     flavored_ecig_details |-> "No statewide restrictions on flavored e-cigarettes",
     has_ecig_tax |-> TRUE,
     ecig_tax_rate |-> "20% retail",
     ecig_tax_structure |-> "retail %",
     indoor_vaping_ban |-> TRUE,
     indoor_ban_details |-> "Comprehensive smoke-free law covering e-cigarettes",
     state_t21_law |-> TRUE,
     sources |-> <<"Tax Foundation 2025", "Truth Initiative 2025">>
  ],
  \* KY, lines 281-292
  [
     state |-> "Kentucky",
     state_abbr |-> "KY",
     flavored_ecig_ban |-> "none",
     flavored_ecig_details |-> "No statewide restrictions on flavored e-cigarettes",
     has_ecig_tax |-> TRUE,
     ecig_tax_rate |-> "$1.50 per cartridge",
     ecig_tax_structure |-> "per cartridge",
     indoor_vaping_ban |-> FALSE,
     state_t21_law |-> TRUE,
     sources |-> <<"Tax Foundation 2025">>
  ],
  \* LA, lines 294-305
  [
     state |-> "Louisiana",
     state_abbr |-> "LA",
     flavored_ecig_ban |-> "none",
     flavored_ecig_details |-> "No statewide restrictions on flavored e-cigarettes",
     has_ecig_tax |-> TRUE,
     ecig_tax_rate |-> "15% wholesale",
     ecig_tax_structure |-> "wholesale %",
     indoor_vaping_ban |-> FALSE,
     state_t21_law |-> TRUE,
     sources |-> <<"Tax Foundation 2025">>
  ],
  \* ME, lines 307-319
  [
     state |-> "Maine",
     state_abbr |-> "ME",
     flavored_ecig_ban |-> "none",
     flavored_ecig_details |-> "No statewide flavor ban",
     has_ecig_tax |-> TRUE,
     ecig_tax_rate |-> "43% wholesale",
     ecig_tax_structure |-> "wholesale %",
     indoor_vaping_ban |-> TRUE,
     indoor_ban_details |-> "Comprehensive smoke-free law covering e-cigarettes",
     state_t21_law |-> TRUE,
     sources |-> <<"Tax Foundation 2025", "Truth Initiative 2025">>
  ],
  \* MD, lines 321-333
  [
     state |-> "Maryland",
     state_abbr |-> "MD",
     flavored_ecig_ban |-> "partial",
     flavored_ecig_details |-> "Limits flavored product sales to age-restricted venues",
     has_ecig_tax |-> TRUE,
     ecig_tax_rate |-> "60% retail",
     ecig_tax_structure |-> "retail %",
     indoor_vaping_ban |-> TRUE,
     indoor_ban_details |-> "Comprehensive smoke-free law covering e-cigarettes",
     state_t21_law |-> TRUE,
     sources |-> <<"Tax Foundation 2025", "Ecigator 2025", "Truth Initiative 2025">>
  ],
  \* MA, lines 335-351
  [
     state |-> "Massachusetts",
     state_abbr |-> "MA",
     flavored_ecig_ban |-> "comprehensive",
     flavored_ecig_details |-> "First state to ban all flavored tobacco products including menthol cigarettes (effective 2020)",
     flavored_ecig_effective_date |-> Some("2020-06-01"),
     menthol_cig_ban |-> TRUE,
     menthol_ban_details |-> "Comprehensive ban on menthol cigarettes statewide",
     menthol_effective_date |-> Some("2020-06-01"),
     has_ecig_tax |-> TRUE,
     ecig_tax_rate |-> "75% wholesale",
     ecig_tax_structure |-> "wholesale %",
     indoor_vaping_ban |-> TRUE,
     indoor_ban_details |-> "Comprehensive smoke-free law covering e-cigarettes",
     state_t21_law |-> TRUE,
     sources |-> <<"Campaign for Tobacco-Free Kids 2024", "Tax Foundation 2025", "Stateline 2024">>
  ],
  \* MI, lines 353-362
  [
     state |-> "Michigan",
     state_abbr |-> "MI",
     flavored_ecig_ban |-> "none",
     flavored_ecig_details |-> "No statewide restrictions on flavored e-cigarettes",
     has_ecig_tax |-> FALSE,
     indoor_vaping_ban |-> FALSE,
     state_t21_law |-> TRUE,
     sources |-> <<"Tax Foundation 2025">>
  ],
  \* MN, lines 364-375
  [
     state |-> "Minnesota",
     state_abbr |-> "MN",
     flavored_ecig_ban |-> "none",
     flavored_ecig_details |-> "No statewide flavor ban",
     has_ecig_tax |-> TRUE,
     ecig_tax_rate |-> "95% wholesale",
     ecig_tax_structure |-> "wholesale %",
     indoor_vaping_ban |-> FALSE,
     state_t21_law |-> TRUE,
     sources |-> <<"Tax Foundation 2025">>
  ],
  \* MS, lines 377-386
  [
     state |-> "Mississippi",
     state_abbr |-> "MS",
     flavored_ecig_ban |-> "none",
     flavored_ecig_details |-> "No statewide restrictions on flavored e-cigarettes",
     has_ecig_tax |-> FALSE,
     indoor_vaping_ban |-> FALSE,
     state_t21_law |-> FALSE,
     sources |-> <<"Tax Foundation 2025">>
  ],
  \* MO, lines 388-397
  [
     state |-> "Missouri",
     state_abbr |-> "MO",
     flavored_ecig_ban |-> "none",
     flavored_ecig_details |-> "No statewide restrictions on flavored e-cigarettes",
     has_ecig_tax |-> FALSE,
     indoor_vaping_ban |-> FALSE,
     state_t21_law |-> FALSE,
     sources |-> <<"Tax Foundation 2025">>
  ],
  \* MT, lines 399-408
  [
     state |-> "Montana",
     state_abbr |-> "MT",
     flavored_ecig_ban |-> "none",
     flavored_ecig_details |-> "No statewide restrictions on flavored e-cigarettes",
     has_ecig_tax |-> FALSE,
     indoor_vaping_ban |-> FALSE,
     state_t21_law |-> FALSE,
     sources |-> <<"Tax Foundation 2025">>
  ],
  \* NE, lines 410-421
  [
     state |-> "Nebraska",
     state_abbr |-> "NE",
     flavored_ecig_ban |-> "none",
     flavored_ecig_details |-> "No statewide restrictions on flavored e-cigarettes",
     has_ecig_tax |-> TRUE,
     ecig_tax_rate |-> "20% wholesale",
     ecig_tax_structure |-> "wholesale %",
     indoor_vaping_ban |-> FALSE,
     state_t21_law |-> TRUE,
     sources |-> <<"Tax Foundation 2025">>
  ],
  \* NV, lines 423-434
  [
     state |-> "Nevada",
     state_abbr |-> "NV",
     flavored_ecig_ban |-> "none",
     flavored_ecig_details |-> "No statewide restrictions on flavored e-cigarettes",
     has_ecig_tax |-> TRUE,
     ecig_tax_rate |-> "30% wholesale",
     ecig_tax_structure |-> "wholesale %",
     indoor_vaping_ban |-> FALSE,
     state_t21_law |-> TRUE,
     sources |-> <<"Tax Foundation 2025">>
  ],
  \* NH, lines 436-447
  [
     state |-> "New Hampshire",
     state_abbr |-> "NH",
     flavored_ecig_ban |-> "none",
     flavored_ecig_details |-> "No statewide restrictions on flavored e-cigarettes",
     has_ecig_tax |-> TRUE,
     ecig_tax_rate |-> "8% wholesale (open), $0.30/mL (closed)",
     ecig_tax_structure |-> "hybrid",
     indoor_vaping_ban |-> FALSE,
     state_t21_law |-> TRUE,
     sources |-> <<"Tax Foundation 2025">>
  ],
  \* NJ, lines 449-463
  [
     state |-> "New Jersey",
     state_abbr |-> "NJ",
     flavored_ecig_ban |-> "comprehensive",
     flavored_ecig_details |-> "Comprehensive ban on flavored e-cigarettes (tobacco flavor only allowed). Does NOT ban menthol cigarettes.",
     flavored_ecig_effective_date |-> Some("2020-04-20"),
     menthol_cig_ban |-> FALSE,
     has_ecig_tax |-> TRUE,
     ecig_tax_rate |-> "10% retail",
     ecig_tax_structure |-> "retail %",
     indoor_vaping_ban |-> TRUE,
     indoor_ban_details |-> "Comprehensive smoke-free law covering e-cigarettes",
     state_t21_law |-> TRUE,
     sources |-> <<"Campaign for Tobacco-Free Kids 2024", "Tax Foundation 2025", "VapeRanger 2025">>
  ],
  \* NM, lines 465-477
  [
     state |-> "New Mexico",
     state_abbr |-> "NM",
     flavored_ecig_ban |-> "none",
     flavored_ecig_details |-> "No statewide restrictions on flavored e-cigarettes",
     has_ecig_tax |-> TRUE,
     ecig_tax_rate |-> "$0.50 per cartridge",
     ecig_tax_structure |-> "per cartridge",
     indoor_vaping_ban |-> TRUE,
     indoor_ban_details |-> "Comprehensive smoke-free law covering e-cigarettes",
     state_t21_law |-> TRUE,
     sources |-> <<"Tax Foundation 2025", "Truth Initiative 2025">>
  ],
  \* NY, lines 479-493
  [
     state |-> "New York",
     state_abbr |-> "NY",
     flavored_ecig_ban |-> "comprehensive",
     flavored_ecig_details |-> "Comprehensive ban on flavored e-cigarettes (tobacco flavor only allowed). Does NOT ban menthol cigarettes.",
     flavored_ecig_effective_date |-> Some("2020-05-18"),
     menthol_cig_ban |-> FALSE,
     has_ecig_tax |-> TRUE,
     ecig_tax_rate |-> "20% retail",
     ecig_tax_structure |-> "retail %",
     indoor_vaping_ban |-> TRUE,
     indoor_ban_details |-> "Comprehensive smoke-free law covering e-cigarettes",
     state_t21_law |-> TRUE,
     sources |-> <<"Campaign for Tobacco-Free Kids 2024", "Tax Foundation 2025", "VapeRanger 2025">>
  ],
  \* NC, lines 495-508
  [
     state |-> "North Carolina",
     state_abbr |-> "NC",
     flavored_ecig_ban |-> "partial",
     flavored_ecig_details |-> "As of July 1, 2025, only disposable vapes listed on state directory of FDA-authorized products can be sold",
     flavored_ecig_effective_date |-> Some("2025-07-01"),
     has_ecig_tax |-> TRUE,
     ecig_tax_rate |-> "12.8% wholesale (open), $0.05/mL (closed)",
     ecig_tax_structure |-> "hybrid",
     indoor_vaping_ban |-> FALSE,
     state_t21_law |-> TRUE,
     recent_changes |-> "New FDA-authorized product requirement as of July 2025",
     sources |-> <<"Tax Foundation 2025", "VapeRanger 2025">>
  ],
  \* ND, lines 510-520
  [
     state |-> "North Dakota",
     state_abbr |-> "ND",
     flavored_ecig_ban |-> "none",
     flavored_ecig_details |-> "No statewide restrictions on flavored e-cigarettes",
     has_ecig_tax |-> FALSE,
     indoor_vaping_ban |-> TRUE,
     indoor_ban_details |-> "Comprehensive smoke-free law covering e-cigarettes",
     state_t21_law |-> TRUE,
     sources |-> <<"Tax Foundation 2025", "Truth Initiative 2025">>
  ],
  \* OH, lines 522-536
  [
     state |-> "Ohio",
     state_abbr |-> "OH",
     flavored_ecig_ban |-> "partial",
     flavored_ecig_details |-> "Statewide flavor ban enacted in 2025",
     flavored_ecig_effective_date |-> Some("2025"),
     has_ecig_tax |-> TRUE,
     ecig_tax_rate |-> "10% retail",
     ecig_tax_structure |-> "retail %",
     indoor_vaping_ban |-> FALSE,
     state_t21_law |-> TRUE,
     recent_changes |-> "State flavor ban enacted 2025. Court ruled state preemption of local tobacco laws unconstitutional (May 2024).",
     local_restrictions |-> <<"Columbus and 13 other municipalities have local flavor restrictions">>,
     sources |-> <<"Tax Foundation 2025", "VapeRanger 2025", "Campaign for Tobacco-Free Kids 2024">>
  ],
  \* OK, lines 538-547
  [
     state |-> "Oklahoma",
     state_abbr |-> "OK",
     flavored_ecig_ban |-> "none",
     flavored_ecig_details |-> "No statewide restrictions on flavored e-cigarettes",
     has_ecig_tax |-> FALSE,
     indoor_vaping_ban |-> FALSE,
     state_t21_law |-> TRUE,
     sources |-> <<"Tax Foundation 2025">>
  ],
  \* OR, lines 549-563
  [
     state |-> "Oregon",
     state_abbr |-> "OR",
     flavored_ecig_ban |-> "none",
     flavored_ecig_details |-> "No statewide flavor ban, but many local restrictions",
     has_ecig_tax |-> TRUE,
     ecig_tax_rate |-> "65% wholesale",
     ecig_tax_structure |-> "wholesale %",
     indoor_vaping_ban |-> TRUE,
     indoor_ban_details |-> "Comprehensive smoke-free law covering e-cigarettes",
     state_t21_law |-> TRUE,
     recent_changes |-> "Oregon Court of Appeals upheld Washington County's flavored tobacco law (May 2024)",
     local_restrictions |-> <<"Washington County and other localities have flavor restrictions">>,
     sources |-> <<"Tax Foundation 2025", "Campaign for Tobacco-Free Kids 2024", "Truth Initiative 2025">>
  ],
  \* PA, lines 565-576
  [
     state |-> "Pennsylvania",
     state_abbr |-> "PA",
     flavored_ecig_ban |-> "none",
     flavored_ecig_details |-> "No statewide restrictions on flavored e-cigarettes",
     has_ecig_tax |-> TRUE,
     ecig_tax_rate |-> "40% wholesale",
     ecig_tax_structure |-> "wholesale %",
     indoor_vaping_ban |-> FALSE,
     state_t21_law |-> TRUE,
     sources |-> <<"Tax Foundation 2025">>
  ],
  \* RI, lines 578-593
  [
     state |-> "Rhode Island",
     state_abbr |-> "RI",
     flavored_ecig_ban |-> "comprehensive",
     flavored_ecig_details |-> "Comprehensive ban on flavored e-cigarettes except tobacco and menthol, enforced Jan 1, 2025 (made permanent from 2019 executive order)",
     flavored_ecig_effective_date |-> Some("2025-01-01"),
     menthol_cig_ban |-> FALSE,
     has_ecig_tax |-> TRUE,
     ecig_tax_rate |-> "10% wholesale (open), $0.50/mL (closed)",
     ecig_tax_structure |-> "hybrid",
     indoor_vaping_ban |-> TRUE,
     indoor_ban_details |-> "Comprehensive smoke-free law covering e-cigarettes",
     state_t21_law |-> TRUE,
     recent_changes |-> "Flavor ban made permanent as of Jan 1, 2025. New e-cig tax enacted Jan 1, 2025.",
     sources |-> <<"Tax Foundation 2025", "VapeRanger 2025", "Campaign for Tobacco-Free Kids 2024">>
  ],
  \* SC, lines 595-604
  [
     state |-> "South Carolina",
     state_abbr |-> "SC",
     flavored_ecig_ban |-> "none",
     flavored_ecig_details |-> "No statewide restrictions on flavored e-cigarettes",
     has_ecig_tax |-> FALSE,
     indoor_vaping_ban |-> FALSE,
     state_t21_law |-> FALSE,
     sources |-> <<"Tax Foundation 2025">>
  ],
  \* SD, lines 606-615
  [
     state |-> "South Dakota",
     state_abbr |-> "SD",
     flavored_ecig_ban |-> "none",
     flavored_ecig_details |-> "No statewide restrictions on flavored e-cigarettes",
     has_ecig_tax |-> FALSE,
     indoor_vaping_ban |-> FALSE,
     state_t21_law |-> TRUE,
     sources |-> <<"Tax Foundation 2025">>
  ],
  \* TN, lines 617-626
  [
     state |-> "Tennessee",
     state_abbr |-> "TN",
     flavored_ecig_ban |-> "none",
     flavored_ecig_details |-> "No statewide restrictions on flavored e-cigarettes",
     has_ecig_tax |-> FALSE,
     indoor_vaping_ban |-> FALSE,
     state_t21_law |-> TRUE,
     sources |-> <<"Tax Foundation 2025">>
  ],
  \* TX, lines 628-639
  [
     state |-> "Texas",
     state_abbr |-> "TX",
     flavored_ecig_ban |-> "partial",
     flavored_ecig_details |-> "State flavor ban enacted 2025. Additionally, SB 2024 prohibits sale of e-cigarette products made in China and pre-filled with liquid (effective June 2025)",
     flavored_ecig_effective_date |-> Some("2025"),
     has_ecig_tax |-> FALSE,
     indoor_vaping_ban |-> FALSE,
     state_t21_law |-> TRUE,
     recent_changes |-> "Flavor ban and China-made product ban enacted 2025",
     sources |-> <<"Tax Foundation 2025", "VapeRanger 2025">>
  ],
  \* UT, lines 641-656
  [
     state |-> "Utah",
     state_abbr |-> "UT",
     flavored_ecig_ban |-> "comprehensive",
     flavored_ecig_details |-> "Comprehensive ban on flavored vapes except tobacco and menthol (effective Jan 1, 2025, upheld by federal judge March 2025)",
     flavored_ecig_effective_date |-> Some("2025-01-01"),
     menthol_cig_ban |-> FALSE,
     has_ecig_tax |-> TRUE,
     ecig_tax_rate |-> "56% manufacturer",
     ecig_tax_structure |-> "manufacturer %",
     indoor_vaping_ban |-> TRUE,
     indoor_ban_details |-> "Comprehensive smoke-free law covering e-cigarettes",
     state_t21_law |-> TRUE,
     recent_changes |-> "Flavor ban effective Jan 1, 2025, upheld by federal court March 2025",
     sources |-> <<"Tax Foundation 2025", "VapeRanger 2025", "Campaign for Tobacco-Free Kids 2024">>
  ],
  \* VT, lines 658-670
  [
     state |-> "Vermont",
     state_abbr |-> "VT",
     flavored_ecig_ban |-> "none",
     flavored_ecig_details |-> "No statewide restrictions on flavored e-cigarettes",
     has_ecig_tax |-> TRUE,
     ecig_tax_rate |-> "92% wholesale",
     ecig_tax_structure |-> "wholesale %",
     indoor_vaping_ban |-> TRUE,
     indoor_ban_details |-> "Comprehensive smoke-free law covering e-cigarettes",
     state_t21_law |-> TRUE,
     sources |-> <<"Tax Foundation 2025", "Truth Initiative 2025">>
  ],
  \* VA, lines 672-684
  [
     state |-> "Virginia",
     state_abbr |-> "VA",
     flavored_ecig_ban |-> "none",
     flavored_ecig_details |-> "No statewide restrictions on flavored e-cigarettes",
     has_ecig_tax |-> TRUE,
     ecig_tax_rate |-> "$0.11 per mL (increased from $0.066 in 2024)",
     ecig_tax_structure |-> "per mL",
     indoor_vaping_ban |-> FALSE,
     state_t21_law |-> TRUE,
     recent_changes |-> "E-cig tax increased to $0.11/mL in 2024",
     sources |-> <<"Tax Foundation 2025">>
  ],
  \* WA, lines 686-698
  [
     state |-> "Washington",
     state_abbr |-> "WA",
     flavored_ecig_ban |-> "partial",
     flavored_ecig_details |-> "State flavor ban on e-cigarettes",
     has_ecig_tax |-> TRUE,
     ecig_tax_rate |-> "27% wholesale (open), $0.09/mL (closed)",
     ecig_tax_structure |-> "hybrid",
     indoor_vaping_ban |-> TRUE,
     indoor_ban_details |-> "Comprehensive public vaping ban in indoor workplaces, restaurants, and bars",
     state_t21_law |-> TRUE,
     sources |-> <<"Tax Foundation 2025", "VapeRanger 2025">>
  ],
  \* WV, lines 700-711
  [
     state |-> "West Virginia",
     state_abbr |-> "WV",
     flavored_ecig_ban |-> "none",
     flavored_ecig_details |-> "No statewide restrictions on flavored e-cigarettes",
     has_ecig_tax |-> TRUE,
     ecig_tax_rate |-> "17.5% manufacturer (open), $0.075/mL (closed)",
     ecig_tax_structure |-> "hybrid",
     indoor_vaping_ban |-> FALSE,
     state_t21_law |-> TRUE,
     sources |-> <<"Tax Foundation 2025">>
  ],
  \* WI, lines 713-726
  [
     state |-> "Wisconsin",
     state_abbr |-> "WI",
     flavored_ecig_ban |-> "partial",
     flavored_ecig_details |-> "Similar law to North Carolina requiring FDA-authorized products, set for Sep 1, 2025 (may be subject to legal challenges)",
     flavored_ecig_effective_date |-> Some("2025-09-01"),
     has_ecig_tax |-> TRUE,
     ecig_tax_rate |-> "5¢ per mL",
     ecig_tax_structure |-> "per mL",
     indoor_vaping_ban |-> FALSE,
     state_t21_law |-> TRUE,
     recent_changes |-> "FDA-authorized product requirement scheduled for Sep 2025, facing legal challenges",
     sources |-> <<"Tax Foundation 2025", "VapeRanger 2025">>
  ],
  \* WY, lines 728-739
  [
     state |-> "Wyoming",
     state_abbr |-> "WY",
     flavored_ecig_ban |-> "none",
     flavored_ecig_details |-> "No statewide restrictions on flavored e-cigarettes",
     has_ecig_tax |-> TRUE,
     ecig_tax_rate |-> "15% wholesale",
     ecig_tax_structure |-> "wholesale %",
     indoor_vaping_ban |-> FALSE,
     state_t21_law |-> TRUE,
     sources |-> <<"Tax Foundation 2025">>
  ],
  \* DC, lines 741-752
  [
     state |-> "District of Columbia",
     state_abbr |-> "DC",
     flavored_ecig_ban |-> "comprehensive",
     flavored_ecig_details |-> "Comprehensive flavor restrictions on e-cigarettes",
     has_ecig_tax |-> TRUE,
     ecig_tax_rate |-> "96% wholesale",
     ecig_tax_structure |-> "wholesale %",
     indoor_vaping_ban |-> TRUE,
     state_t21_law |-> TRUE,
     sources |-> <<"Tax Foundation 2025", "VapeRanger 2025">>
  ]
  >>

\* STATES with the last record a copy of the first
STATES_duplicated ==
  [i \in DOMAIN STATES_literal |->
     StateTobaccoPolicy(STATES_literal[IF i = Len(STATES_literal) THEN 1 ELSE i])]

\* STATES: the list of the constructed records, in authoring order
STATES == [i \in DOMAIN STATES_literal |-> StateTobaccoPolicy(STATES_literal[i])]

\* to_dict that leaves out the fields that are None
to_dict_omitNone(self) ==
  [n \in {f \in FieldNames : ~(FieldType[f] = "Optional[str]" /\ self[f] = None)}
     |-> self[n]]

\* to_dict / dataclasses.asdict: a new dict with one key per declared field
to_dict(self) == [n \in FieldNames |-> self[n]]

\* ------------------------------------------------------------------------
\* State
\* ------------------------------------------------------------------------

VARIABLES
  catalog,      \* the module global STATES
  fs,           \* the files: path -> [exists, data], data a sequence of chunks
  stdout,       \* the strings printed so far, one per print call
  stats,        \* the locals of the last generate_summary_stats call
  raised,       \* the exception that left the last call, or NoError
  fault,        \* what the operating system did to the last export
  opens,        \* path -> number of open() calls made on it
  last,         \* the last call: which function, which filename
  firstExport,  \* path -> the file's content after the first completed export
  calls,        \* number of calls made by an importing caller
  pc            \* position of the process

vars == <<catalog, fs, stdout, stats, raised, fault, opens, last, firstExport, calls, pc>>

\* the default of export_to_json's filename parameter
DefaultFilename == "state_policies.json"

\* the paths a caller exports to
Paths == {DefaultFilename, "out/policies.json"}

NoError == "none"

NoFault == [stage |-> "none", err |-> NoError, blocks |-> 0]

NoFile == [exists |-> FALSE, data |-> <<>>]

NoStats ==
  [total_states |-> 0, comprehensive_ban |-> 0, partial_ban |-> 0, no_ban |-> 0,
   menthol_bans |-> 0, with_tax |-> 0, without_tax |-> 0, indoor_bans |-> 0]

\* ------------------------------------------------------------------------
\* generate_summary_stats
\* ------------------------------------------------------------------------

\* IsComprehensive that counts every record with a ban
IsComprehensive_anyBan(s) == s.flavored_ecig_ban # "none"

IsComprehensive(s) == s.flavored_ecig_ban = "comprehensive"

IsPartial(s) == s.flavored_ecig_ban = "partial"

\* IsNone that counts every record without a comprehensive ban
IsNone_notComprehensive(s) == s.flavored_ecig_ban # "comprehensive"

IsNone(s) == s.flavored_ecig_ban = "none"

\* HasMentholBan that counts a comprehensive flavor ban as a menthol ban
HasMentholBan_anyComprehensive(s) == s.menthol_cig_ban \/ s.flavored_ecig_ban = "comprehensive"

HasMentholBan(s) == s.menthol_cig_ban

\* HasTax that takes a rate description for a tax
HasTax_anyRate(s) == s.has_ecig_tax \/ s.ecig_tax_rate # ""

HasTax(s) == s.has_ecig_tax

HasIndoorBan(s) == s.indoor_vaping_ban

\* the locals computed from the list; sum(1 for s in STATES if <test>) is the
\* number of positions of the list whose record passes the test
SummaryStats(cat) ==
  LET total_states == Len(cat)
      with_tax == Cardinality({i \in DOMAIN cat : HasTax(cat[i])})
  IN [ total_states |-> total_states,
       comprehensive_ban |-> Cardinality({i \in DOMAIN cat : IsComprehensive(cat[i])}),
       partial_ban |-> Cardinality({i \in DOMAIN cat : IsPartial(cat[i])}),
       no_ban |-> Cardinality({i \in DOMAIN cat : IsNone(cat[i])}),
       menthol_bans |-> Cardinality({i \in DOMAIN cat : HasMentholBan(cat[i])}),
       with_tax |-> with_tax,
       without_tax |-> total_states - with_tax,
       indoor_bans |-> Cardinality({i \in DOMAIN cat : HasIndoorBan(cat[i])}) ]

RECURSIVE Repeat(_, _)
\* s * n
Repeat(s, n) == IF n <= 0 THEN "" ELSE s \o Repeat(s, n - 1)

RuleWidth == 60

Rule == Repeat("=", RuleWidth)

\* the arguments of the print calls, in order
SummaryLines(st) ==
  << "\n" \o Rule,
     "STATE VAPING & TOBACCO POLICY SUMMARY",
     Rule \o "\n",
     "Total jurisdictions: " \o ToString(st.total_states),
     "",
     "FLAVORED E-CIGARETTE RESTRICTIONS:",
     "  Comprehensive bans: " \o ToString(st.comprehensive_ban) \o " states",
     "  Partial restrictions: " \o ToString(st.partial_ban) \o " states",
     "  No restrictions: " \o ToString(st.no_ban) \o " states",
     "",
     "MENTHOL CIGARETTE BANS:",
     "  States with menthol bans: " \o ToString(st.menthol_bans),
     "  (Massachusetts, California)",
     "",
     "E-CIGARETTE EXCISE TAXES:",
     "  States with e-cig tax: " \o ToString(st.with_tax),
     "  States without e-cig tax: " \o ToString(st.without_tax),
     "",
     "INDOOR VAPING RESTRICTIONS:",
     "  States with comprehensive indoor vaping bans: " \o ToString(st.indoor_bans),
     "",
     Rule \o "\n" >>

\* generate_summary_stats that consumes the list it counts
generate_summary_stats_consuming ==
  /\ stats' = SummaryStats(catalog)
  /\ stdout' = stdout \o SummaryLines(stats')
  /\ raised' = NoError
  /\ fault' = NoFault
  /\ last' = [op |-> "summary", filename |-> "", existed |-> FALSE]
  /\ catalog' = <<>>
  /\ UNCHANGED <<fs, opens, firstExport>>

generate_summary_stats ==
  /\ stats' = SummaryStats(catalog)
  /\ stdout' = stdout \o SummaryLines(stats')
  /\ raised' = NoError
  /\ fault' = NoFault
  /\ last' = [op |-> "summary", filename |-> "", existed |-> FALSE]
  /\ UNCHANGED <<catalog, fs, opens, firstExport>>

\* ------------------------------------------------------------------------
\* export_to_json: the document
\* ------------------------------------------------------------------------

\* MetadataKeys without the notes
MetadataKeys_noNotes == <<"last_updated", "data_version", "sources">>

MetadataKeys == <<"last_updated", "data_version", "sources", "notes">>

MetadataType ==
  [last_updated |-> "str", data_version |-> "str", sources |-> "List[str]", notes |-> "str"]

Metadata ==
  [ last_updated |-> "2024-12-24",
    data_version |-> "1.0",
    sources |-> << "Truth Initiative Flavored Tobacco Restrictions Q2 2025",
                   "Campaign for Tobacco-Free Kids State Policy Database 2024",
                   "Tax Foundation Vaping Taxes by State 2025",
                   "CDC STATE System",
                   "FDA Tobacco 21 Resources",
                   "State Legislative Sources" >>,
    notes |-> "Federal T21 law applies to all states. Data current as of December 2024/January 2025." ]

\* ExportData that lists the states in reverse order
ExportData_reversed(cat) ==
  [metadata |-> Metadata,
   states |-> [i \in DOMAIN cat |-> to_dict(cat[Len(cat) + 1 - i])]]

\* the dict built by export_to_json
ExportData(cat) ==
  [metadata |-> Metadata, states |-> [i \in DOMAIN cat |-> to_dict(cat[i])]]

\* ------------------------------------------------------------------------
\* json.dump(data, f, indent=2): the chunks written, without the whitespace
\* ------------------------------------------------------------------------

Tok(t, s) == [t |-> t, s |-> s]

LBrace == Tok("punct", "{")

RBrace == Tok("punct", "}")

LBracket == Tok("punct", "[")

RBracket == Tok("punct", "]")

Comma == Tok("punct", ",")

Colon == Tok("punct", ":")

\* ensure_ascii: the one non-ASCII string of the catalog is escaped, every
\* other string of the catalog and the metadata is written as it is
EscapeString(s) == IF s = "5¢ per mL" THEN "5\\u00a2 per mL" ELSE s

EncodeString(s) == Tok("string", EscapeString(s))

RECURSIVE EncodeItems(_, _)
EncodeItems(xs, i) ==
  IF i > Len(xs) THEN <<>>
  ELSE (IF i > 1 THEN <<Comma>> ELSE <<>>)
       \o <<EncodeString(xs[i])>> \o EncodeItems(xs, i + 1)

\* the encoder dispatches on the value's type
EncodeValue(v, ty) ==
  CASE ty = "str" -> <<EncodeString(v)>>
    [] ty = "Optional[str]" ->
         IF v = None THEN <<Tok("literal", "null")>> ELSE <<EncodeString(v[1])>>
    [] ty = "bool" -> <<Tok("literal", IF v THEN "true" ELSE "false")>>
    [] ty = "int" -> <<Tok("number", ToString(v))>>
    [] ty = "List[str]" -> <<LBracket>> \o EncodeItems(v, 1) \o <<RBracket>>

RECURSIVE EncodeMembers(_, _, _, _)
EncodeMembers(d, keys, types, i) ==
  IF i > Len(keys) THEN <<>>
  ELSE (IF i > 1 THEN <<Comma>> ELSE <<>>)
       \o <<EncodeString(keys[i]), Colon>>
       \o EncodeValue(d[keys[i]], types[keys[i]])
       \o EncodeMembers(d, keys, types, i + 1)

\* the keys of dict d, in insertion order (order lists the possible keys)
DictKeys(d, order) == SelectSeq(order, LAMBDA k : k \in DOMAIN d)

\* a dict is written in the insertion order of its keys
EncodeDict(d, order, types) ==
  <<LBrace>> \o EncodeMembers(d, DictKeys(d, order), types, 1) \o <<RBrace>>

RECURSIVE EncodeStates(_, _)
EncodeStates(ds, i) ==
  IF i > Len(ds) THEN <<>>
  ELSE (IF i > 1 THEN <<Comma>> ELSE <<>>)
       \o EncodeDict(ds[i], Fields, FieldType) \o EncodeStates(ds, i + 1)

JsonDump(data) ==
  <<LBrace, EncodeString("metadata"), Colon>>
  \o EncodeDict(data.metadata, MetadataKeys, MetadataType)
  \o <<Comma, EncodeString("states"), Colon, LBracket>>
  \o EncodeStates(data.states, 1)
  \o <<RBracket, RBrace>>

\* ------------------------------------------------------------------------
\* the file: open(filename, 'w'), buffered writes, close
\* ------------------------------------------------------------------------

\* mode 'a': the file keeps what it holds
OpenForAppending(file) == [exists |-> TRUE, data |-> file.data]

\* mode 'w' creates the file or truncates it
OpenForWriting(file) == [exists |-> TRUE, data |-> <<>>]

Write(file, chunks) == [file EXCEPT !.data = @ \o chunks]

Min(a, b) == IF a < b THEN a ELSE b

\* number of blocks the document is flushed in
NumBlocks(doc) == (Len(doc) + BlockSize - 1) \div BlockSize

\* the first b blocks of the document
FirstBlocks(doc, b) == SubSeq(doc, 1, Min(b * BlockSize, Len(doc)))

\* errors open() raises before it touches the file
OpenErrors == {"PermissionError", "FileNotFoundError"}

\* error of a write or of the flush at close (disk full, I/O error)
WriteError == "OSError"

ExportedMessage(cat, filename) ==
  "Exported " \o ToString(Len(cat)) \o " state policies to " \o filename

\* ------------------------------------------------------------------------
\* export_to_json
\* ------------------------------------------------------------------------

\* the call returns: the file holds the document, the message is printed
ExportCompletes(filename, doc) ==
  LET file == Write(OpenForWriting(fs[filename]), doc)
  IN /\ fs' = [fs EXCEPT ![filename] = file]
     /\ opens' = [opens EXCEPT ![filename] = @ + 1]
     /\ stdout' = Append(stdout, ExportedMessage(catalog, filename))
     /\ raised' = NoError
     /\ fault' = NoFault
     /\ firstExport' = IF firstExport[filename].exists THEN firstExport
                       ELSE [firstExport EXCEPT ![filename] = file]
     /\ last' = [op |-> "export", filename |-> filename, existed |-> fs[filename].exists]
     /\ UNCHANGED <<catalog, stats>>

\* open() raises: the file is as it was, the exception leaves the function
ExportOpenFails(filename) ==
  \E e \in OpenErrors :
     /\ e = "FileNotFoundError" => ~fs[filename].exists
     /\ opens' = [opens EXCEPT ![filename] = @ + 1]
     /\ fault' = [stage |-> "open", err |-> e, blocks |-> 0]
     /\ raised' = e
     /\ last' = [op |-> "export", filename |-> filename, existed |-> fs[filename].exists]
     /\ UNCHANGED <<catalog, fs, stdout, stats, firstExport>>

\* ExportWriteFails that removes the partly written file
ExportWriteFails_cleanup(filename, doc) ==
  \E b \in 0 .. NumBlocks(doc) - 1 :
     /\ fs' = [fs EXCEPT ![filename] = NoFile]
     /\ opens' = [opens EXCEPT ![filename] = @ + 1]
     /\ fault' = [stage |-> "write", err |-> WriteError, blocks |-> b]
     /\ raised' = WriteError
     /\ last' = [op |-> "export", filename |-> filename, existed |-> fs[filename].exists]
     /\ UNCHANGED <<catalog, stdout, stats, firstExport>>

\* a write raises after b blocks reached the file: the with statement closes
\* the file and the exception leaves the function
ExportWriteFails(filename, doc) ==
  \E b \in 0 .. NumBlocks(doc) - 1 :
     /\ fs' = [fs EXCEPT ![filename] =
                  Write(OpenForWriting(fs[filename]), FirstBlocks(doc, b))]
     /\ opens' = [opens EXCEPT ![filename] = @ + 1]
     /\ fault' = [stage |-> "write", err |-> WriteError, blocks |-> b]
     /\ raised' = WriteError
     /\ last' = [op |-> "export", filename |-> filename, existed |-> fs[filename].exists]
     /\ UNCHANGED <<catalog, stdout, stats, firstExport>>

\* data is built from the catalog before the file is opened
export_to_json(filename) ==
  LET doc == JsonDump(ExportData(catalog))
  IN \/ ExportCompletes(filename, doc)
     \/ ExportOpenFails(filename)
     \/ ExportWriteFails(filename, doc)

\* ------------------------------------------------------------------------
\* The process
\* ------------------------------------------------------------------------

\* what the default file may hold before the program runs; the other path is
\* fresh
OldChunk == Tok("string", "previous content")

\* an older and longer file
OldFile(doc) == [exists |-> TRUE, data |-> doc \o <<OldChunk>>]

Init ==
  /\ catalog = STATES
  /\ \E old \in {NoFile, OldFile(JsonDump(ExportData(STATES)))} :
        fs = [p \in Paths |-> IF p = DefaultFilename THEN old ELSE NoFile]
  /\ stdout = <<>>
  /\ stats = NoStats
  /\ raised = NoError
  /\ fault = NoFault
  /\ opens = [p \in Paths |-> 0]
  /\ last = [op |-> "none", filename |-> "", existed |-> FALSE]
  /\ firstExport = [p \in Paths |-> NoFile]
  /\ calls = 0
  /\ pc \in {"main", "import"}

\* the __main__ block with the export before the summary
MainSummary_exportFirst ==
  /\ pc = "main"
  /\ export_to_json(DefaultFilename)
  /\ pc' = "main_export"
  /\ UNCHANGED calls

\* if __name__ == '__main__': generate_summary_stats()
MainSummary ==
  /\ pc = "main"
  /\ generate_summary_stats
  /\ pc' = "main_export"
  /\ UNCHANGED calls

\* export_to_json(); an exception ends the process with a non-zero status
MainExport ==
  /\ pc = "main_export"
  /\ export_to_json(DefaultFilename)
  /\ pc' = IF raised' = NoError THEN "exit0" ELSE "exit1"
  /\ UNCHANGED calls

\* a caller that imported the module calls generate_summary_stats
CallSummary ==
  /\ pc = "import"
  /\ calls < MaxCalls
  /\ generate_summary_stats
  /\ calls' = calls + 1
  /\ UNCHANGED pc

\* a caller that imported the module calls export_to_json
CallExport ==
  /\ pc = "import"
  /\ calls < MaxCalls
  /\ \E filename \in Paths : export_to_json(filename)
  /\ calls' = calls + 1
  /\ UNCHANGED pc

Next == MainSummary \/ MainExport \/ CallSummary \/ CallExport

Spec == Init /\ [][Next]_vars

\* ------------------------------------------------------------------------
\* Reading a file back: json.load, used to state the properties of the
\* exported document
\* ------------------------------------------------------------------------

\* inverse of the string escaping
UnescapeString(s) == IF s = "5\\u00a2 per mL" THEN "5¢ per mL" ELSE s

\* the integer a number chunk denotes (two decimal digits at most), or -1
ParseInt(s) ==
  IF \E n \in 0 .. 99 : ToString(n) = s
  THEN CHOOSE n \in 0 .. 99 : ToString(n) = s
  ELSE -1

Invalid == [t |-> "invalid"]

\* +1 for an opening bracket, -1 for a closing one
Delta(tk) ==
  IF tk = LBrace \/ tk = LBracket THEN 1
  ELSE IF tk = RBrace \/ tk = RBracket THEN -1
  ELSE 0

RECURSIVE Depths(_, _, _, _)
\* for the chunks a..b, the number of brackets open before each of them,
\* base being that number for chunk a
Depths(toks, a, b, base) ==
  IF a > b THEN <<>>
  ELSE IF a = b THEN <<base>>
  ELSE LET m == (a + b) \div 2
           left == Depths(toks, a, m, base)
       IN left \o Depths(toks, m + 1, b, left[Len(left)] + Delta(toks[m]))

\* the sequence f with every element computed
Evaluated(f) == f \o <<>>

\* the elements of a set of integers, in increasing order
Sorted(S) ==
  LET rank == [k \in S |-> Cardinality({m \in S : m < k})] @@ <<>>
  IN Evaluated([t \in 1 .. Cardinality(S) |-> CHOOSE k \in S : rank[k] = t - 1])

ParseScalar(tk) ==
  CASE tk.t = "string" -> [t |-> "string", s |-> UnescapeString(tk.s)]
    [] tk.t = "number" -> [t |-> "number", n |-> ParseInt(tk.s)]
    [] tk.t = "literal" /\ tk.s \in {"null", "true", "false"} -> [t |-> tk.s]
    [] OTHER -> Invalid

RECURSIVE ParseRange(_, _, _, _)
\* the JSON value that the chunks i..j spell, Invalid if they spell none
ParseRange(toks, dep, i, j) ==
  IF i > j THEN Invalid
  ELSE IF i = j THEN ParseScalar(toks[i])
  ELSE IF ~(\/ toks[i] = LBracket /\ toks[j] = RBracket
            \/ toks[i] = LBrace /\ toks[j] = RBrace) THEN Invalid
  ELSE IF \E k \in i + 1 .. j : dep[k] <= dep[i] THEN Invalid
  ELSE LET commas == Sorted({k \in i + 1 .. j - 1 :
                                toks[k] = Comma /\ dep[k] = dep[i] + 1})
           n == IF j = i + 1 THEN 0 ELSE Len(commas) + 1
           First(t) == IF t = 1 THEN i + 1 ELSE commas[t - 1] + 1
           Last(t) == IF t = n THEN j - 1 ELSE commas[t] - 1
       IN IF toks[i] = LBracket
          THEN LET items == Evaluated([t \in 1 .. n |->
                                ParseRange(toks, dep, First(t), Last(t))])
               IN IF \E t \in 1 .. n : items[t] = Invalid THEN Invalid
                  ELSE [t |-> "array", items |-> items]
          ELSE LET members ==
                     Evaluated([t \in 1 .. n |->
                        IF /\ First(t) + 2 <= Last(t)
                           /\ toks[First(t)].t = "string"
                           /\ toks[First(t) + 1] = Colon
                        THEN [k |-> UnescapeString(toks[First(t)].s),
                              v |-> ParseRange(toks, dep, First(t) + 2, Last(t))]
                        ELSE [k |-> "", v |-> Invalid]])
               IN IF \E t \in 1 .. n : members[t].v = Invalid THEN Invalid
                  ELSE [t |-> "object", members |-> members]

\* json.load: the value of a whole file, Invalid if it is not one JSON value
JsonLoad(toks) == ParseRange(toks, Depths(toks, 1, Len(toks), 0), 1, Len(toks))

IsObject(j) == j.t = "object"

\* the keys of an object, in document order
Keys(j) == [i \in DOMAIN j.members |-> j.members[i].k]

HasKey(j, key) == \E i \in DOMAIN j.members : j.members[i].k = key

\* obj[key]: the value of the last member with that key
Get(j, key) ==
  LET is == {i \in DOMAIN j.members : j.members[i].k = key}
  IN IF is = {} THEN Invalid
     ELSE j.members[CHOOSE i \in is : \A k \in is : k <= i].v

\* JSON value j is what json.load turns into the Python value v of type ty
Represents(j, v, ty) ==
  CASE ty = "str" -> j.t = "string" /\ j.s = v
    [] ty = "Optional[str]" ->
         IF v = None THEN j.t = "null" ELSE j.t = "string" /\ j.s = v[1]
    [] ty = "bool" -> j.t = (IF v THEN "true" ELSE "false")
    [] ty = "int" -> j.t = "number" /\ j.n = v
    [] ty = "List[str]" ->
         /\ j.t = "array"
         /\ Len(j.items) = Len(v)
         /\ \A k \in DOMAIN v : j.items[k].t = "string" /\ j.items[k].s = v[k]

\* the last call was an export and it returned normally
ExportReturned == last.op = "export" /\ raised = NoError

\* the document in the file of the last export, read back
Reread == JsonLoad(fs[last.filename].data)

\* the summary was the last call
SummaryReturned == last.op = "summary"

\* the k-th print of the last summary (SummaryReturned)
SummaryLine(k) == stdout[Len(stdout) - Len(SummaryLines(NoStats)) + k]

\* ------------------------------------------------------------------------
\* Properties
\* ------------------------------------------------------------------------

\* the postal codes of the 50 states
USPostalCodes ==
  { "AL", "AK", "AZ", "AR", "CA", "CO", "CT", "DE", "FL", "GA",
    "HI", "ID", "IL", "IN", "IA", "KS", "KY", "LA", "ME", "MD",
    "MA", "MI", "MN", "MS", "MO", "MT", "NE", "NV", "NH", "NJ",
    "NM", "NY", "NC", "ND", "OH", "OK", "OR", "PA", "RI", "SC",
    "SD", "TN", "TX", "UT", "VT", "VA", "WA", "WV", "WI", "WY" }

\* C1: the catalog has exactly 51 records, their state_abbr values are the 50
\* state postal codes and "DC", and no abbreviation occurs in two records.
C1_Jurisdictions ==
  /\ Len(catalog) = 51
  /\ {catalog[i].state_abbr : i \in DOMAIN catalog} = USPostalCodes \cup {"DC"}
  /\ \A i, j \in DOMAIN catalog :
        catalog[i].state_abbr = catalog[j].state_abbr => i = j

\* a summary has counted the catalog, whose last record is DC
C1_Witness ==
  /\ SummaryReturned
  /\ stats.total_states = Len(catalog)
  /\ catalog[Len(catalog)].state_abbr = "DC"

\* C2 as stated: the summary prints a comprehensive-ban count of 6 and a
\* total of 51.
C2_AsStated ==
  SummaryReturned =>
     /\ SummaryLine(4) = "Total jurisdictions: 51"
     /\ SummaryLine(7) = "  Comprehensive bans: 6 states"

\* C2 amended: the summary prints a comprehensive-ban count of 7, the number
\* of records whose flavored_ecig_ban is "comprehensive", and a total of 51.
C2_SummaryCounts ==
  SummaryReturned =>
     /\ SummaryLine(4) = "Total jurisdictions: 51"
     /\ SummaryLine(7) = "  Comprehensive bans: 7 states"
     /\ Cardinality({i \in DOMAIN catalog :
                        catalog[i].flavored_ecig_ban = "comprehensive"}) = 7

\* the summary has printed its report
C2_Witness ==
  /\ SummaryReturned
  /\ SummaryLine(2) = "STATE VAPING & TOBACCO POLICY SUMMARY"
  /\ stats.comprehensive_ban > 0

\* C3: every record's flavored_ecig_ban is one of "comprehensive", "partial",
\* "none"; the three counts of the summary count every record in exactly one
\* bucket and sum to the total of 51.
C3_BanCategoriesPartition ==
  /\ \A i \in DOMAIN catalog :
        catalog[i].flavored_ecig_ban \in {"comprehensive", "partial", "none"}
  /\ SummaryReturned =>
        /\ \A i \in DOMAIN catalog :
              Cardinality({b \in {"c", "p", "n"} :
                 \/ b = "c" /\ IsComprehensive(catalog[i])
                 \/ b = "p" /\ IsPartial(catalog[i])
                 \/ b = "n" /\ IsNone(catalog[i])}) = 1
        /\ stats.comprehensive_ban + stats.partial_ban + stats.no_ban
              = stats.total_states
        /\ stats.total_states = 51

\* a summary has counted records in each of the three buckets
C3_Witness ==
  /\ SummaryReturned
  /\ stats.comprehensive_ban > 0
  /\ stats.partial_ban > 0
  /\ stats.no_ban > 0

\* C4: when the exported document is read back, its states array has 51
\* elements and the i-th element's state_abbr is that of the i-th catalog
\* record.
C4_OrderPreserved ==
  ExportReturned =>
     LET doc == Reread
         states == Get(doc, "states")
     IN /\ IsObject(doc)
        /\ states.t = "array"
        /\ Len(states.items) = 51
        /\ \A i \in DOMAIN states.items :
              /\ IsObject(states.items[i])
              /\ Get(states.items[i], "state_abbr")
                    = [t |-> "string", s |-> catalog[i].state_abbr]

\* an export returned and the file starts with Alabama and ends with DC
C4_Witness ==
  /\ ExportReturned
  /\ LET items == Get(Reread, "states").items
     IN /\ Get(items[1], "state_abbr").s = "AL"
        /\ Get(items[51], "state_abbr").s = "DC"

\* C5: an export to a fresh path creates a file holding a JSON object whose
\* keys are exactly metadata and states; metadata holds last_updated,
\* data_version, sources (a list of strings) and notes, with their fixed
\* values; states has 51 elements.
C5_DocumentShape ==
  (ExportReturned /\ ~last.existed) =>
     LET doc == Reread
         metadata == Get(doc, "metadata")
         sources == Get(metadata, "sources")
         states == Get(doc, "states")
     IN /\ fs[last.filename].exists
        /\ IsObject(doc)
        /\ Keys(doc) = <<"metadata", "states">>
        /\ IsObject(metadata)
        /\ Keys(metadata) = <<"last_updated", "data_version", "sources", "notes">>
        /\ Get(metadata, "last_updated") = [t |-> "string", s |-> "2024-12-24"]
        /\ Get(metadata, "data_version") = [t |-> "string", s |-> "1.0"]
        /\ sources.t = "array"
        /\ Len(sources.items) = 6
        /\ \A k \in DOMAIN sources.items :
              sources.items[k] = [t |-> "string", s |-> Metadata.sources[k]]
        /\ Get(metadata, "notes") = [t |-> "string", s |-> Metadata.notes]
        /\ states.t = "array"
        /\ Len(states.items) = 51

\* an export to a path that did not exist returned, and the file is there
C5_Witness ==
  /\ ExportReturned
  /\ ~last.existed
  /\ fs[last.filename].exists
  /\ Len(fs[last.filename].data) > 0

\* C6: every object of the exported states list has exactly the fields of the
\* record type as keys, the same for every record, unset optional fields
\* included, and each value is the value of the catalog record's field.
C6_RecordObjects ==
  ExportReturned =>
     LET items == Get(Reread, "states").items
     IN /\ Len(items) = Len(catalog)
        /\ \A i \in DOMAIN items :
              /\ IsObject(items[i])
              /\ Len(items[i].members) = Len(Fields)
              /\ {items[i].members[k].k : k \in DOMAIN items[i].members} = FieldNames
              /\ \A f \in FieldNames :
                    Represents(Get(items[i], f), catalog[i][f], FieldType[f])

\* an export returned; Alabama, which leaves most fields at their default,
\* and California, which sets them, are both written with the 20 keys
C6_Witness ==
  /\ ExportReturned
  /\ LET items == Get(Reread, "states").items
     IN /\ Len(items[1].members) = 20
        /\ Get(items[1], "local_restrictions") = [t |-> "array", items |-> <<>>]
        /\ Len(items[5].members) = 20
        /\ Get(items[5], "menthol_cig_ban").t = "true"

OptionalDates == {"flavored_ecig_effective_date", "menthol_effective_date"}

\* C7: a date the record's constructor call did not set is exported as null
\* (or is absent), never as an empty string; a date that was set is exported
\* as that string.
C7_UnsetDatesAreNull ==
  ExportReturned =>
     LET items == Get(Reread, "states").items
     IN /\ Len(items) = Len(STATES_literal)
        /\ \A i \in DOMAIN items : \A f \in OptionalDates :
              IF f \in DOMAIN STATES_literal[i]
              THEN Get(items[i], f) = [t |-> "string", s |-> STATES_literal[i][f][1]]
              ELSE ~HasKey(items[i], f) \/ Get(items[i], f).t = "null"

\* an export returned; Alabama's dates are null and California's are strings
C7_Witness ==
  /\ ExportReturned
  /\ LET items == Get(Reread, "states").items
     IN /\ Get(items[1], "flavored_ecig_effective_date").t = "null"
        /\ Get(items[1], "menthol_effective_date").t = "null"
        /\ Get(items[5], "menthol_effective_date").t = "string"

\* C8: when an export returns, the file holds exactly what it held after the
\* first export to that path, whatever calls were made in between and whatever
\* the file held before; nothing of the earlier content is left.
C8_ExportIdempotent ==
  ExportReturned =>
     /\ firstExport[last.filename].exists
     /\ fs[last.filename] = firstExport[last.filename]
     /\ \A k \in DOMAIN fs[last.filename].data : fs[last.filename].data[k] # OldChunk

\* two exports to the same path, which held other content before, returned
\* with a summary between them
C8_Witness ==
  /\ ExportReturned
  /\ last.existed
  /\ \E i, j, k \in DOMAIN stdout :
        /\ i < j /\ j < k
        /\ k = Len(stdout)
        /\ stdout[i] = ExportedMessage(catalog, last.filename)
        /\ stdout[j] = "STATE VAPING & TOBACCO POLICY SUMMARY"
        /\ stdout[k] = ExportedMessage(catalog, last.filename)
  /\ \E p \in Paths : opens[p] = 2

\* C9: no call changes the catalog: after any sequence of summary and export
\* calls, failed exports included, it holds the records it held at process
\* start, in the same order and with the same field values.
C9_CatalogUnchanged ==
  /\ Len(catalog) = Len(STATES_literal)
  /\ \A i \in DOMAIN catalog : catalog[i] = StateTobaccoPolicy(STATES_literal[i])

\* a summary ran, then an export completed and a later export failed
C9_Witness ==
  /\ stats # NoStats
  /\ \E p \in Paths : firstExport[p].exists
  /\ last.op = "export"
  /\ raised # NoError

\* C10: when opening or writing the file fails, the error of the operating
\* system is the exception that leaves export_to_json; the file was opened
\* once, it is left as the failure left it (untouched if open failed, else
\* truncated to the blocks written), no other file changes and nothing is
\* printed.
C10_FailurePropagates ==
  [][ raised' # NoError =>
        /\ last'.op = "export"
        /\ raised' = fault'.err
        /\ fault'.stage \in {"open", "write"}
        /\ stdout' = stdout
        /\ opens' = [opens EXCEPT ![last'.filename] = @ + 1]
        /\ \A p \in Paths \ {last'.filename} : fs'[p] = fs[p]
        /\ fault'.stage = "open" => fs'[last'.filename] = fs[last'.filename]
        /\ fault'.stage = "write" =>
              /\ fs'[last'.filename].exists
              /\ Len(fs'[last'.filename].data) = fault'.blocks * BlockSize
              /\ fs'[last'.filename].data
                    = SubSeq(JsonDump(ExportData(catalog)), 1, fault'.blocks * BlockSize)
    ]_vars

\* a write failed after the first block: the file holds that block only
C10_Witness ==
  /\ last.op = "export"
  /\ raised = WriteError
  /\ fault.stage = "write"
  /\ fault.blocks > 0
  /\ fs[last.filename].exists
  /\ Len(fs[last.filename].data) > 0

\* C11: run as a script, the program first prints the whole summary without
\* opening or changing any file, then makes one export_to_json call on the
\* default filename, then ends: at most one open of the destination, none
\* before the summary is printed, and no step after the export.
C11_MainOrder ==
  [][ /\ pc = "main" =>
           /\ opens = [p \in Paths |-> 0]
           /\ stdout = <<>>
           /\ pc' = "main_export"
           /\ last'.op = "summary"
           /\ stdout' = SummaryLines(stats')
           /\ fs' = fs
           /\ opens' = opens
      /\ pc = "main_export" =>
           /\ opens = [p \in Paths |-> 0]
           /\ stdout = SummaryLines(stats)
           /\ pc' \in {"exit0", "exit1"}
           /\ last' = [op |-> "export", filename |-> DefaultFilename,
                       existed |-> fs[DefaultFilename].exists]
           /\ opens' = [opens EXCEPT ![DefaultFilename] = 1]
           /\ \A p \in Paths \ {DefaultFilename} : fs'[p] = fs[p]
           /\ SubSeq(stdout', 1, Len(stdout)) = stdout
      /\ pc \in {"exit0", "exit1"} => FALSE
    ]_vars

\* the script ended normally: the summary, then the export message, one open
C11_Witness ==
  /\ pc = "exit0"
  /\ opens[DefaultFilename] = 1
  /\ Len(stdout) = Len(SummaryLines(stats)) + 1
  /\ stdout[2] = "STATE VAPING & TOBACCO POLICY SUMMARY"
  /\ stdout[Len(stdout)] = ExportedMessage(catalog, DefaultFilename)
  /\ fs[DefaultFilename].exists

\* C12: the summary's with_tax is the number of records with has_ecig_tax
\* true, without_tax the number with has_ecig_tax false, and they sum to 51.
C12_TaxCountsComplementary ==
  SummaryReturned =>
     /\ stats.with_tax
           = Cardinality({i \in DOMAIN catalog : catalog[i].has_ecig_tax = TRUE})
     /\ stats.without_tax
           = Cardinality({i \in DOMAIN catalog : catalog[i].has_ecig_tax = FALSE})
     /\ stats.with_tax + stats.without_tax = 51
     /\ SummaryLine(16) = "  States with e-cig tax: " \o ToString(stats.with_tax)
     /\ SummaryLine(17) = "  States without e-cig tax: " \o ToString(stats.without_tax)

\* a summary counted taxed and untaxed records
C12_Witness ==
  /\ SummaryReturned
  /\ stats.with_tax > 0
  /\ stats.without_tax > 0
  /\ SummaryLine(15) = "E-CIGARETTE EXCISE TAXES:"

TaxStructures ==
  {"wholesale %", "per mL", "retail %", "per cartridge", "manufacturer %", "hybrid", ""}

C14_SourcesNonEmpty ==
  \A i \in DOMAIN catalog : Len(catalog[i].sources) >= 1

\* the catalog is in use; it has records with one and with several citations
C14_Witness ==
  /\ last.op # "none"
  /\ \E i \in DOMAIN catalog : Len(catalog[i].sources) = 1
  /\ \E i \in DOMAIN catalog : Len(catalog[i].sources) > 1

\* C15: the summary prints a menthol-ban count of 2, and the records with
\* menthol_cig_ban true are exactly Massachusetts and California, the two
\* names of the line printed after the count.
C15_MentholSection ==
  SummaryReturned =>
     /\ stats.menthol_bans = 2
     /\ SummaryLine(12) = "  States with menthol bans: 2"
     /\ SummaryLine(13) = "  (Massachusetts, California)"
     /\ {catalog[i].state : i \in {k \in DOMAIN catalog : catalog[k].menthol_cig_ban}}
           = {"Massachusetts", "California"}

\* a summary printed the menthol section
C15_Witness ==
  /\ SummaryReturned
  /\ SummaryLine(11) = "MENTHOL CIGARETTE BANS:"
  /\ stats.menthol_bans > 0

\* C16: a record has has_ecig_tax true exactly when its ecig_tax_structure is
\* not empty, also when an untaxed record has a rate description.
C16_TaxIffStructure ==
  \A i \in DOMAIN catalog :
     catalog[i].has_ecig_tax <=> catalog[i].ecig_tax_structure # ""

\* the catalog is in use; it has a taxed record, and an untaxed record with a
\* rate description
C16_Witness ==
  /\ last.op # "none"
  /\ \E i \in DOMAIN catalog :
        catalog[i].has_ecig_tax /\ catalog[i].ecig_tax_structure # ""
  /\ \E i \in DOMAIN catalog :
        ~catalog[i].has_ecig_tax /\ catalog[i].ecig_tax_rate # ""

====
